---- MODULE Spec2Model ----
(***************************************************************************)
(* Model of the As-Is / To-Be usage-event analysis of pdp-analysis:        *)
(* the two /api/events GET handlers (src/unnamed/part_000) and             *)
(* summarize() of src/lib/loaders.ts.                                      *)
(*                                                                         *)
(* Encodings.                                                              *)
(*   - A JavaScript string is a tuple of one-character strings, so that    *)
(*     trim(), toLowerCase() and includes() are computed, not assumed.     *)
(*   - A nullable value is a tuple of length <= 1: <<>> is null/undefined, *)
(*     <<v>> is the value v.  `x ?? d` is Coalesce(x, d).                  *)
(*   - A JavaScript number that may be NaN is a tuple of length <= 1 too:  *)
(*     <<>> is NaN, <<n>> the number n.                                    *)
(*   - A quotient (an average, minutes) is an exact fraction [n, d].       *)
(***************************************************************************)
EXTENDS Integers, Sequences, FiniteSets, TLC

VARIABLES
  rowsAsIs,   \* the As-Is event rows (input of an operation / upstream data)
  rowsToBe,   \* the To-Be event rows
  p_user,     \* the `user` query parameter, nullable
  handler,    \* which GET handler serves the request: "first" (line 29) or "second" (line 346)
  asisRes,    \* the As-Is rpc() result: [state, error, data]
  tobeRes,    \* the To-Be rpc() result
  pc,         \* position of the handler
  response,   \* the HTTP response once produced
  out         \* the value returned by the last operation applied: [op, val]

vars == <<rowsAsIs, rowsToBe, p_user, handler, asisRes, tobeRes, pc, response, out>>

-----------------------------------------------------------------------------
(* Nullable values *)

Null == <<>>
Some(v) == <<v>>
IsNull(x) == x = <<>>
Get(x) == x[1]
\* x ?? d
Coalesce(x, d) == IF IsNull(x) THEN d ELSE Get(x)

-----------------------------------------------------------------------------
(* Strings *)

UpperAlpha == <<"A","B","C","D","E","F","G","H","I","J","K","L","M",
                "N","O","P","Q","R","S","T","U","V","W","X","Y","Z">>
LowerAlpha == <<"a","b","c","d","e","f","g","h","i","j","k","l","m",
                "n","o","p","q","r","s","t","u","v","w","x","y","z">>
WhiteSpace == {" ", "\t", "\n", "\r"}

LowerCh(c) ==
  IF \E i \in 1..26 : UpperAlpha[i] = c
  THEN LowerAlpha[CHOOSE i \in 1..26 : UpperAlpha[i] = c]
  ELSE c

\* String.prototype.toLowerCase
toLowerCase(s) == [i \in 1..Len(s) |-> LowerCh(s[i])]

\* String.prototype.trim
trim(s) ==
  LET keep == {i \in 1..Len(s) : s[i] \notin WhiteSpace}
  IN  IF keep = {} THEN <<>>
      ELSE LET lo == CHOOSE i \in keep : \A j \in keep : i <= j
               hi == CHOOSE i \in keep : \A j \in keep : i >= j
           IN  SubSeq(s, lo, hi)

\* String.prototype.includes
includes(s, sub) ==
  \E i \in 1..(Len(s) - Len(sub) + 1) : SubSeq(s, i, i + Len(sub) - 1) = sub

-----------------------------------------------------------------------------
(* Phase classifier *)

s_LOGIN       == <<"L","O","G","I","N">>
s_EBOM        == <<"E","B","O","M">>
s_LCA_TARGET  == <<"L","C","A"," ","T","A","R","G","E","T">>
s_CATIA       == <<"C","A","T","I","A">>
s_REVIEW      == <<"R","E","V","I","E","W">>
s_CHECK_List  == <<"C","H","E","C","K"," ","L","i","s","t">>
s_STAGE_Change == <<"S","T","A","G","E"," ","C","h","a","n","g","e">>
s_PROCESS_END == <<"P","R","O","C","E","S","S"," ","E","N","D">>
s_import      == <<"i","m","p","o","r","t">>

\* const PHASE_MAP: own properties of the object literal
PHASE_MAP ==
  [k \in {s_LOGIN, s_EBOM, s_LCA_TARGET, s_CATIA, s_REVIEW, s_CHECK_List,
          s_STAGE_Change, s_PROCESS_END} |->
     CASE k \in {s_LOGIN, s_EBOM, s_LCA_TARGET} -> "Preparation"
       [] k = s_CATIA -> "Design"
       [] k \in {s_REVIEW, s_CHECK_List} -> "Verification"
       [] OTHER -> "Stage/Finish"]

PHASES == <<"Preparation", "Design", "Integration", "Verification", "Stage/Finish", "Other">>
PhaseNames == {PHASES[i] : i \in 1..Len(PHASES)}

\* PHASE_MAP is an object literal: its prototype is Object.prototype, whose
\* members the `in` operator and a property read both see.
ObjectPrototypeKeys ==
  { <<"c","o","n","s","t","r","u","c","t","o","r">>,
    <<"t","o","S","t","r","i","n","g">>,
    <<"v","a","l","u","e","O","f">> }
\* what PHASE_MAP[k] yields for an inherited member k: a function object
InheritedMember == "[Function]"

\* k in PHASE_MAP
InPhaseMap(k) == k \in DOMAIN PHASE_MAP \/ k \in ObjectPrototypeKeys
\* PHASE_MAP[k], nullable (undefined when k is no property at all)
PhaseMapGet(k) ==
  IF k \in DOMAIN PHASE_MAP THEN Some(PHASE_MAP[k])
  ELSE IF k \in ObjectPrototypeKeys THEN Some(InheritedMember)
  ELSE Null

phaseOf(step, action) ==
  LET s == trim(Coalesce(step, <<>>))
      a == toLowerCase(Coalesce(action, <<>>))
  IN  IF InPhaseMap(s) THEN Get(PhaseMapGet(s))
      ELSE IF includes(toLowerCase(s), s_import) \/ includes(a, s_import)
           THEN "Integration"
           ELSE "Other"

\* first handler: PHASE_MAP[step ?? ''] ?? 'Other'
mapStepToPhase(step) == Coalesce(PhaseMapGet(Coalesce(step, <<>>)), "Other")

-----------------------------------------------------------------------------
(* Event rows *)

Row(u, st, ac, at, nx, du) ==
  [user_email |-> u, step |-> st, action |-> ac, created_at |-> at,
   next_created_at |-> nx, duration_seconds_to_next |-> du]

\* an ISO timestamp string denoting second t, and a string Date cannot parse
Iso(t) == [kind |-> "iso", t |-> t]
Malformed == [kind |-> "malformed", t |-> 0]

NoOut == [op |-> "none", val |-> <<>>]
\* settled: 0 while pending, 1 for the read that completed first, 2 for the
\* one that completed second
NoRes == [state |-> "pending", error |-> Null, data |-> <<>>, settled |-> 0]

\* everything the pure-function specifications leave alone
IdleHandler ==
  /\ p_user = Null
  /\ handler = "second"
  /\ asisRes = NoRes
  /\ tobeRes = NoRes
  /\ pc = "idle"
  /\ response = Null

-----------------------------------------------------------------------------
(* Specification of the phase classifier: phaseOf applied to one row *)

s_unknown_step == <<"u","n","k","n","o","w","n","-","s","t","e","p">>
s_Data_Import_Job == <<"D","a","t","a"," ","I","m","p","o","r","t"," ","J","o","b">>

ClassifySteps ==
  { Null, Some(<<>>), Some(s_CATIA), Some(<<" ">> \o s_CATIA \o <<" ">>),
    Some(toLowerCase(s_CATIA)), Some(s_EBOM), Some(s_CHECK_List),
    Some(s_PROCESS_END), Some(s_unknown_step),
    Some(<<"I","M","P","O","R","T"," ","B","O","M">>),
    Some(<<"t","o","S","t","r","i","n","g">>),
    Some(<<"R","E","V","I","E","W","\t">>) }
ClassifyActions ==
  { Null, Some(<<>>), Some(s_Data_Import_Job), Some(<<"c","l","i","c","k">>),
    Some(<<" ","i","m","p","o","r","t"," ">>) }

InitClassify ==
  /\ \E st \in ClassifySteps, ac \in ClassifyActions :
       rowsAsIs = << Row(Null, st, ac, Iso(0), Null, Null) >>
  /\ rowsToBe = <<>>
  /\ out = NoOut
  /\ IdleHandler

Classify ==
  /\ out = NoOut
  /\ out' = [op |-> "phaseOf",
             val |-> phaseOf(rowsAsIs[1].step, rowsAsIs[1].action)]
  /\ UNCHANGED <<rowsAsIs, rowsToBe, p_user, handler, asisRes, tobeRes, pc, response>>

NextClassify == Classify

SpecClassify == InitClassify /\ [][NextClassify]_vars

\* the phase C4 states for a step and an action
C4_Expected(step, action) ==
  LET s == trim(Coalesce(step, <<>>))
  IN  IF s \in DOMAIN PHASE_MAP THEN PHASE_MAP[s]
      ELSE IF \/ includes(toLowerCase(s), s_import)
              \/ includes(toLowerCase(Coalesce(action, <<>>)), s_import)
           THEN "Integration"
           ELSE "Other"

\* C4: phaseOf returns one of the six phase names: the table entry of the
\* trimmed step when the trimmed step is a key of the step-to-phase table,
\* otherwise Integration when the lower-cased step or action contains
\* "import", otherwise Other.
C4_PhaseOfTotal ==
  out.op = "phaseOf" =>
    /\ out.val \in PhaseNames
    /\ out.val = C4_Expected(rowsAsIs[1].step, rowsAsIs[1].action)

-----------------------------------------------------------------------------
(* Revisit detector, Policy B: action revisits, consecutive duplicates dropped *)

normAction(a) == toLowerCase(trim(Coalesce(a, <<>>)))

\* the for-loop of countRevisitsByActionNonConsecutive from row i on, with
\* its locals seen, cnt and prev
RECURSIVE RevisitLoop(_, _, _, _, _)
RevisitLoop(rows, i, seen, cnt, prev) ==
  IF i > Len(rows) THEN cnt
  ELSE LET a == normAction(rows[i].action)
       IN  IF a = <<>> THEN RevisitLoop(rows, i + 1, seen, cnt, prev)
           ELSE IF a = prev THEN RevisitLoop(rows, i + 1, seen, cnt, prev)
           ELSE RevisitLoop(rows, i + 1, seen \cup {a},
                            IF a \in seen THEN cnt + 1 ELSE cnt, a)

\* the same loop without `if (a === prev) continue`
RECURSIVE RevisitLoopNoSkip(_, _, _, _, _)
RevisitLoopNoSkip(rows, i, seen, cnt, prev) ==
  IF i > Len(rows) THEN cnt
  ELSE LET a == normAction(rows[i].action)
       IN  IF a = <<>> THEN RevisitLoopNoSkip(rows, i + 1, seen, cnt, prev)
           ELSE RevisitLoopNoSkip(rows, i + 1, seen \cup {a},
                                  IF a \in seen THEN cnt + 1 ELSE cnt, a)

countRevisits_NoSkip(rows) == RevisitLoopNoSkip(rows, 1, {}, 0, <<>>)

countRevisitsByActionNonConsecutive(rows) == RevisitLoop(rows, 1, {}, 0, <<>>)

-----------------------------------------------------------------------------
(* Specification of Policy B: one user's rows in created_at order *)

MaxActions == 4

s_user1 == <<"u","1","@","x">>
s_user2 == <<"u","2","@","x">>

RevisitActions ==
  { Null, Some(<<" ">>), Some(<<"A">>), Some(<<"a"," ">>), Some(<<"B">>) }

InitRevisit ==
  /\ \E n \in 0..MaxActions :
       \E f \in [1..n -> RevisitActions] :
         rowsAsIs = [i \in 1..n |-> Row(Some(s_user1), Null, f[i], Iso(i), Null, Null)]
  /\ rowsToBe = <<>>
  /\ out = NoOut
  /\ IdleHandler

CountRevisits ==
  /\ out = NoOut
  /\ out' = [op |-> "countRevisits",
             val |-> countRevisitsByActionNonConsecutive(rowsAsIs)]
  /\ UNCHANGED <<rowsAsIs, rowsToBe, p_user, handler, asisRes, tobeRes, pc, response>>

NextRevisit == CountRevisits

SpecRevisit == InitRevisit /\ [][NextRevisit]_vars

NormActions(rows) == [i \in 1..Len(rows) |-> normAction(rows[i].action)]

\* the kept events as C1 states them: an event is skipped only when its
\* normalized action equals that of the immediately previous kept event
\* (which is then also that of the event just before it)
C1_KeptAsStated(a) == {i \in 1..Len(a) : i = 1 \/ a[i] # a[i - 1]}
C1_CountAsStated(a) ==
  Cardinality({i \in C1_KeptAsStated(a) :
                 \E j \in C1_KeptAsStated(a) : j < i /\ a[j] = a[i]})
\* C1 as stated: the count is the number of kept events whose normalized
\* action already occurred at an earlier kept event, an event being skipped
\* only when its normalized action equals that of the previous kept event.
C1_PolicyB_AsStated ==
  out.op = "countRevisits" => out.val = C1_CountAsStated(NormActions(rowsAsIs))

\* the kept events of the amended C1: among the events with a non-empty
\* normalized action, the first one and those whose action differs from
\* that of the one before
C1_NonEmpty(a) == {i \in 1..Len(a) : a[i] # <<>>}
C1_Kept(a) ==
  {i \in C1_NonEmpty(a) :
     \A j \in C1_NonEmpty(a) :
       (j < i /\ \A k \in C1_NonEmpty(a) : ~(j < k /\ k < i)) => a[j] # a[i]}
C1_Count(a) ==
  Cardinality({i \in C1_Kept(a) : \E j \in C1_Kept(a) : j < i /\ a[j] = a[i]})
\* C1 amended: events with an empty normalized action are skipped as well
\* as consecutive duplicates; the count is the number of kept events whose
\* normalized action already occurred at an earlier kept event.
C1_PolicyB ==
  out.op = "countRevisits" => out.val = C1_Count(NormActions(rowsAsIs))

\* the action sequence [A, A, B, A] (up to case and padding) gives 1
C1_Witness ==
  /\ out.op = "countRevisits"
  /\ NormActions(rowsAsIs) = << <<"a">>, <<"a">>, <<"b">>, <<"a">> >>
  /\ rowsAsIs[2].action # rowsAsIs[1].action
  /\ out.val = 1

-----------------------------------------------------------------------------
(* Numbers: exact fractions n/d; 0/0 stands for NaN, 1/0 for Infinity and  *)
(* -1/0 for -Infinity. A number held by a row is <<n>> when it is the       *)
(* finite number n and <<s, 0>> when it is the non-finite s/0.              *)

RECURSIVE GCD(_, _)
GCD(a, b) == IF b = 0 THEN a ELSE GCD(b, a % b)
Abs(x) == IF x < 0 THEN 0 - x ELSE x

NaN == [n |-> 0, d |-> 0]
\* n / d for an integer n and an integer d > 0, in lowest terms
Ratio(n, d) ==
  LET g == GCD(Abs(n), d) IN [n |-> n \div g, d |-> d \div g]
\* x + y of IEEE 754, rounding apart
FracAdd(x, y) ==
  IF x.d # 0 /\ y.d # 0 THEN Ratio(x.n * y.d + y.n * x.d, x.d * y.d)
  ELSE IF x.d # 0 THEN y
  ELSE IF y.d # 0 THEN x
  ELSE IF x = y THEN x ELSE NaN
\* x / k for a finite k > 0
FracDiv(x, k) == IF x.d = 0 THEN x ELSE Ratio(x.n, x.d * k)
\* the number v held by a row, as a fraction
Frac(v) == IF Len(v) = 1 THEN Ratio(v[1], 1) ELSE [n |-> v[1], d |-> 0]
Max(a, b) == IF a >= b THEN a ELSE b

\* (v, d = 0) => (typeof v === 'number' && isFinite(v) ? v : d)
toNum(v) == IF Len(v) = 1 THEN v[1] ELSE 0

RECURSIVE SumSeq(_)
\* nums.reduce((acc, x) => acc + x, 0)
SumSeq(nums) ==
  IF nums = <<>> THEN 0 ELSE Head(nums) + SumSeq(Tail(nums))

RECURSIVE FracSum(_)
\* fracs.reduce((acc, x) => acc + x, 0), left to right
FracSum(fracs) ==
  IF fracs = <<>> THEN Ratio(0, 1)
  ELSE FracAdd(FracSum(SubSeq(fracs, 1, Len(fracs) - 1)), fracs[Len(fracs)])

-----------------------------------------------------------------------------
(* Sorting by created_at *)

\* new Date(s).getTime(): milliseconds, or NaN (<<>>) for an unparsable string
getTime(ts) == IF ts.kind = "iso" THEN Some(ts.t * 1000) ELSE Null

\* (a, b) => new Date(a.created_at).getTime() - new Date(b.created_at).getTime()
\* as Array.prototype.sort reads it: a NaN result counts as +0
byCreatedAt(a, b) ==
  LET ta == getTime(a.created_at)
      tb == getTime(b.created_at)
  IN  IF IsNull(ta) \/ IsNull(tb) THEN 0 ELSE Get(ta) - Get(tb)

RECURSIVE StableInsert(_, _)
\* x placed after every element that does not compare greater than it
StableInsert(sorted, x) ==
  IF sorted = <<>> THEN <<x>>
  ELSE IF byCreatedAt(Head(sorted), x) <= 0
       THEN <<Head(sorted)>> \o StableInsert(Tail(sorted), x)
       ELSE <<x>> \o sorted

RECURSIVE StableSort(_)
StableSort(list) ==
  IF list = <<>> THEN <<>>
  ELSE StableInsert(StableSort(SubSeq(list, 1, Len(list) - 1)), list[Len(list)])

Perms(list) ==
  {[i \in 1..Len(list) |-> list[p[i]]] : p \in Permutations(1..Len(list))}

\* no sort at all: the list left in input order
sortByCreatedAt_Unsorted(list) == {list}

\* list.sort(byCreatedAt): the stable sort when the comparator is consistent.
\* With an unparsable created_at the comparator is not a consistent ordering
\* and the order is implementation-defined: any permutation.
sortByCreatedAt(list) ==
  IF \A i \in 1..Len(list) : list[i].created_at.kind = "iso"
  THEN {StableSort(list)}
  ELSE Perms(list)

-----------------------------------------------------------------------------
(* Grouping by user *)

s_unknown == <<"u","n","k","n","o","w","n">>
s_Unknown == <<"U","n","k","n","o","w","n">>
s_Other   == <<"O","t","h","e","r">>

userKey(r) == Coalesce(r.user_email, s_unknown)

RECURSIVE GroupLoop(_, _, _)
\* rows.forEach(r => (byUser.get(key)?.push(r)) ?? byUser.set(key, [r]))
\* byUser as the sequence of its entries in insertion order
GroupLoop(rows, i, byUser) ==
  IF i > Len(rows) THEN byUser
  ELSE LET key == userKey(rows[i])
           at  == {j \in 1..Len(byUser) : byUser[j].key = key}
       IN  GroupLoop(rows, i + 1,
             IF at = {} THEN Append(byUser, [key |-> key, list |-> <<rows[i]>>])
             ELSE LET j == CHOOSE j \in at : TRUE
                  IN  [byUser EXCEPT ![j].list = Append(@, rows[i])])

groupByUser(rows) == GroupLoop(rows, 1, <<>>)

\* the arrays of one invocation: the caller's array `rows` and the arrays
\* the grouping created from it (Array.from(byUser.values()): one per user,
\* made by `[r]` and filled by push)
groupArrays(rows) ==
  [input   |-> rows,
   created |-> [g \in 1..Len(groupByUser(rows)) |-> groupByUser(rows)[g].list]]

\* every way of sorting each of the arrays
sortEach(arrays) ==
  {f \in [1..Len(arrays) ->
            UNION {sortByCreatedAt(arrays[g]) : g \in 1..Len(arrays)}] :
     \A g \in 1..Len(arrays) : f[g] \in sortByCreatedAt(arrays[g])}

\* the sort applied to the caller's array
sortGroups_CallerArray(h) ==
  {[h EXCEPT !.input = l] : l \in sortByCreatedAt(h.input)}

\* list.sort(byCreatedAt) on each array of byUser.values(), in place: the
\* arrays afterwards
sortGroups(h) == {[h EXCEPT !.created = c] : c \in sortEach(h.created)}

\* [...rows].sort(byCreatedAt) in buildUserSummary of the first handler: a
\* copy of each group array is made and sorted
sortCopies(h) == {[h EXCEPT !.created = @ \o c] : c \in sortEach(h.created)}

-----------------------------------------------------------------------------
(* User summaries *)

durOf(r) == toNum(r.duration_seconds_to_next)
\* r.duration_seconds_to_next ?? 0
durOrZero(r) ==
  IF IsNull(r.duration_seconds_to_next) THEN Ratio(0, 1)
  ELSE Frac(r.duration_seconds_to_next)

\* the durations of a list, each read by toNum (a finite number) / by `?? 0`
\* (a fraction)
dursOf(list) == [i \in 1..Len(list) |-> durOf(list[i])]
dursOrZero(list) == [i \in 1..Len(list) |-> durOrZero(list[i])]

\* the buckets {sum, n} of the keys (keys[i] with duration durs[i], one per
\* event, a fraction) turned into averages sum / max(1, n)
bucketAverages(keys, durs) ==
  [k \in {keys[i] : i \in 1..Len(keys)} |->
     LET at == {i \in 1..Len(keys) : keys[i] = k}
         sel == SelectSeq([i \in 1..Len(keys) |-> IF i \in at THEN <<durs[i]>> ELSE <<>>],
                          LAMBDA x : x # <<>>)
     IN  FracDiv(FracSum([i \in 1..Len(sel) |-> sel[i][1]]), Max(1, Len(sel)))]

(* second handler *)
stepKeySecond(r) == Coalesce(r.step, s_Unknown)

buildUserSummary(rows) ==
  [email      |-> IF rows = <<>> THEN <<>> ELSE Coalesce(rows[1].user_email, <<>>),
   totalMin   |-> Ratio(SumSeq(dursOf(rows)), 60),
   backtracks |-> countRevisitsByActionNonConsecutive(rows),
   stepAvgSec |-> bucketAverages([i \in 1..Len(rows) |-> stepKeySecond(rows[i])],
                                 [i \in 1..Len(rows) |-> Ratio(durOf(rows[i]), 1)])]

\* every result summarizeByUser can return: one summary per group, each
\* built from the group as list.sort left it
summarizeByUser(rows) ==
  LET byUser == groupByUser(rows)
      each(g) == {buildUserSummary(l) : l \in sortByCreatedAt(byUser[g].list)}
  IN  {f \in [1..Len(byUser) -> UNION {each(g) : g \in 1..Len(byUser)}] :
         \A g \in 1..Len(byUser) : f[g] \in each(g)}

(* first handler *)
stepKeyFirst(r) == Coalesce(r.step, s_Other)

RECURSIVE SeenByStepLoop(_, _, _, _)
\* for (const r of list) { seen = seenByStep.get(stepKey) ?? 0; ... }
SeenByStepLoop(list, i, seenByStep, backtracks) ==
  IF i > Len(list) THEN backtracks
  ELSE LET stepKey == stepKeyFirst(list[i])
           seen == IF stepKey \in DOMAIN seenByStep THEN seenByStep[stepKey] ELSE 0
       IN  SeenByStepLoop(list, i + 1,
             [k \in DOMAIN seenByStep \cup {stepKey} |->
                IF k = stepKey THEN seen + 1 ELSE seenByStep[k]],
             IF seen > 0 THEN backtracks + 1 ELSE backtracks)

\* the loop counting only a repeat of the step just before
countSeenByStep_ConsecutiveOnly(list) ==
  Cardinality({i \in 2..Len(list) : stepKeyFirst(list[i]) = stepKeyFirst(list[i - 1])})

countSeenByStep(list) == SeenByStepLoop(list, 1, <<>>, 0)

buildUserSummaryFirstOf(list) ==
  [email      |-> IF list = <<>> THEN s_unknown ELSE Coalesce(list[1].user_email, s_unknown),
   totalMin   |-> FracDiv(FracSum(dursOrZero(list)), 60),
   backtracks |-> countSeenByStep(list),
   stepAvgSec |-> bucketAverages([i \in 1..Len(list) |-> stepKeyFirst(list[i])],
                                 dursOrZero(list))]

\* every result buildUserSummary of the first handler can return
buildUserSummaryFirst(rows) ==
  {buildUserSummaryFirstOf(l) : l \in sortByCreatedAt(rows)}

summarizeByUserFirst(rows) ==
  LET byUser == groupByUser(rows)
      each(g) == buildUserSummaryFirst(byUser[g].list)
  IN  {f \in [1..Len(byUser) -> UNION {each(g) : g \in 1..Len(byUser)}] :
         \A g \in 1..Len(byUser) : f[g] \in each(g)}

(* src/lib/loaders.ts *)
\* backtracks counted for a repeat at any distance
loadersBacktracks_AnyDistance(arr) ==
  Cardinality({i \in 2..Len(arr) :
     \E j \in 1..(i - 1) : Coalesce(arr[j].step, <<>>) = Coalesce(arr[i].step, <<>>)})

\* for (let i=1;i<arr.length;i++) if (prev === cur) backtracks++
loadersBacktracks(arr) ==
  Cardinality({i \in 2..Len(arr) :
     Coalesce(arr[i - 1].step, <<>>) = Coalesce(arr[i].step, <<>>)})

\* the difference of the two getTime() values taken for seconds
loadersTotalMin_AsSeconds(arr) ==
  LET start == getTime(arr[1].created_at)
      end   == getTime(arr[Len(arr)].created_at)
  IN  IF IsNull(start) \/ IsNull(end) THEN NaN
      ELSE Ratio(Get(end) - Get(start), 60)

\* (end - start) / 60000 of the getTime() values of the first and last event
loadersTotalMin(arr) ==
  LET start == getTime(arr[1].created_at)
      end   == getTime(arr[Len(arr)].created_at)
  IN  IF IsNull(start) \/ IsNull(end) THEN NaN
      ELSE Ratio(Get(end) - Get(start), 60000)

loadersSummaryOf(email, arr) ==
  LET counted == SelectSeq(arr, LAMBDA r :
                   /\ ~IsNull(r.step) /\ Get(r.step) # <<>>
                   /\ ~IsNull(r.duration_seconds_to_next))
  IN  [email       |-> email,
       totalMin    |-> loadersTotalMin(arr),
       transitions |-> Len(arr) - 1,
       backtracks  |-> loadersBacktracks(arr),
       stepAvgSec  |-> bucketAverages(
                         [i \in 1..Len(counted) |-> Get(counted[i].step)],
                         [i \in 1..Len(counted) |-> Frac(counted[i].duration_seconds_to_next)])]

\* every value of userSummaries that summarize can return
summarize(rows) ==
  LET byUser == groupByUser(rows)
      each(g) == {loadersSummaryOf(byUser[g].key, l) : l \in sortByCreatedAt(byUser[g].list)}
  IN  {f \in [1..Len(byUser) -> UNION {each(g) : g \in 1..Len(byUser)}] :
         \A g \in 1..Len(byUser) : f[g] \in each(g)}

-----------------------------------------------------------------------------
(* Specification of Policy C: buildUserSummary of the first handler applied *)
(* to one user's rows in created_at order                                   *)

MaxSteps == 4

s_X == <<"X">>
s_Y == <<"Y">>

PolicyCSteps == { Null, Some(s_X), Some(s_Y), Some(s_Other) }

InitPolicyC ==
  /\ \E n \in 0..MaxSteps :
       \E f \in [1..n -> PolicyCSteps] :
         rowsAsIs = [i \in 1..n |-> Row(Some(s_user1), f[i], Null, Iso(i), Null, Null)]
  /\ rowsToBe = <<>>
  /\ out = NoOut
  /\ IdleHandler

BuildUserSummaryFirst ==
  /\ out = NoOut
  /\ \E v \in buildUserSummaryFirst(rowsAsIs) :
       out' = [op |-> "buildUserSummaryFirst", val |-> v]
  /\ UNCHANGED <<rowsAsIs, rowsToBe, p_user, handler, asisRes, tobeRes, pc, response>>

NextPolicyC == BuildUserSummaryFirst

SpecPolicyC == InitPolicyC /\ [][NextPolicyC]_vars

\* the step label of an event, an unset label counted as "Other"
C2_Labels(rows) == [i \in 1..Len(rows) |-> Coalesce(rows[i].step, s_Other)]

\* C2: Policy C counts the events whose step label occurred at any earlier
\* position, i.e. the number of events minus the number of distinct labels.
C2_PolicyC ==
  out.op = "buildUserSummaryFirst" =>
    LET l == C2_Labels(rowsAsIs)
    IN  /\ out.val.backtracks =
             Cardinality({i \in 1..Len(l) : \E j \in 1..(i - 1) : l[j] = l[i]})
        /\ out.val.backtracks = Len(l) - Cardinality({l[i] : i \in 1..Len(l)})

\* the step sequence [X, Y, X, X] gives 2
C2_Witness ==
  /\ out.op = "buildUserSummaryFirst"
  /\ C2_Labels(rowsAsIs) = <<s_X, s_Y, s_X, s_X>>
  /\ out.val.backtracks = 2

-----------------------------------------------------------------------------
(* Specification of Policy A: summarize of loaders.ts applied to the rows   *)
(* of several users in any order                                            *)

MaxRows == 3

PolicyAUsers == { Null, Some(s_user1) }
PolicyASteps == { Null, Some(s_X), Some(s_Y) }
PolicyATimes == { 1, 2 }

InitPolicyA ==
  /\ \E n \in 0..MaxRows :
       \E u \in [1..n -> PolicyAUsers], f \in [1..n -> PolicyASteps],
          t \in [1..n -> PolicyATimes] :
         rowsAsIs = [i \in 1..n |-> Row(u[i], f[i], Null, Iso(t[i]), Null, Null)]
  /\ rowsToBe = <<>>
  /\ out = NoOut
  /\ IdleHandler

Summarize ==
  /\ out = NoOut
  /\ \E v \in summarize(rowsAsIs) : out' = [op |-> "summarize", val |-> v]
  /\ \E h \in sortGroups(groupArrays(rowsAsIs)) : rowsAsIs' = h.input
  /\ UNCHANGED <<rowsToBe, p_user, handler, asisRes, tobeRes, pc, response>>

NextPolicyA == Summarize

SpecPolicyA == InitPolicyA /\ [][NextPolicyA]_vars

\* the events of user key k, in input order
C3_EventsOf(rows, k) == SelectSeq(rows, LAMBDA r : userKey(r) = k)
\* the step label of an event, an unset label read as the empty label
C3_Label(r) == Coalesce(r.step, <<>>)
C3_IsSorted(l) ==
  \A i, j \in 1..Len(l) : i < j => l[i].created_at.t <= l[j].created_at.t

-----------------------------------------------------------------------------
(* Specification of input order: the three summarizers applied to one       *)
(* user's events supplied in any order, equal created_at included           *)

MaxGroup == 3

OrderLabels == { s_X, s_Y }
OrderTimes  == { 1, 2, 3 }
OrderDurs   == { Null, Some(2) }

InitOrder ==
  /\ \E n \in 1..MaxGroup :
       \E l \in [1..n -> OrderLabels], t \in [1..n -> OrderTimes],
          d \in [1..n -> OrderDurs] :
         rowsAsIs = [i \in 1..n |->
                       Row(Some(s_user1), Some(l[i]), Some(l[i]), Iso(t[i]),
                           IF IsNull(d[i]) THEN Null ELSE Some(Iso(t[i] + Get(d[i]))),
                           d[i])]
  /\ rowsToBe = <<>>
  /\ out = NoOut
  /\ IdleHandler

SummarizeByUser ==
  /\ out = NoOut
  /\ \E v \in summarizeByUser(rowsAsIs) : out' = [op |-> "summarizeByUser", val |-> v]
  /\ \E h \in sortGroups(groupArrays(rowsAsIs)) : rowsAsIs' = h.input
  /\ UNCHANGED <<rowsToBe, p_user, handler, asisRes, tobeRes, pc, response>>

SummarizeByUserFirst ==
  /\ out = NoOut
  /\ \E v \in summarizeByUserFirst(rowsAsIs) :
       out' = [op |-> "summarizeByUserFirst", val |-> v]
  /\ \E h \in sortCopies(groupArrays(rowsAsIs)) : rowsAsIs' = h.input
  /\ UNCHANGED <<rowsToBe, p_user, handler, asisRes, tobeRes, pc, response>>

NextOrder == SummarizeByUser \/ SummarizeByUserFirst \/ Summarize

SpecOrder == InitOrder /\ [][NextOrder]_vars

SummarizerOps == {"summarizeByUser", "summarizeByUserFirst", "summarize"}
\* what the summarizer named op can return for rows
C7_Results(op, rows) ==
  CASE op = "summarizeByUser" -> summarizeByUser(rows)
    [] op = "summarizeByUserFirst" -> summarizeByUserFirst(rows)
    [] op = "summarize" -> summarize(rows)
\* the summary without the fields the claim does not name
C7_View(v) ==
  [g \in 1..Len(v) |-> [email |-> v[g].email, totalMin |-> v[g].totalMin,
                        backtracks |-> v[g].backtracks, stepAvgSec |-> v[g].stepAvgSec]]
C7_DistinctTimes(rows) ==
  \A i, j \in 1..Len(rows) : i # j => rows[i].created_at.t # rows[j].created_at.t

\* C7 as stated: whatever the order the group is supplied in, equal
\* created_at included, the summary is the one of the group supplied sorted
\* by created_at ascending.
C7_OrderIndependent_AsStated ==
  out.op \in SummarizerOps =>
    \A p \in Perms(rowsAsIs) :
      C3_IsSorted(p) =>
        \A w \in C7_Results(out.op, p) : C7_View(w) = C7_View(out.val)

\* C7 amended: the summary is the same for every permutation of a group
\* whose events have pairwise distinct created_at.
C7_OrderIndependent ==
  (out.op \in SummarizerOps /\ C7_DistinctTimes(rowsAsIs)) =>
    \A p \in Perms(rowsAsIs) :
      \A w \in C7_Results(out.op, p) : C7_View(w) = C7_View(out.val)

\* three events with distinct created_at supplied out of order, whose
\* summary counts the backtrack of the sorted action sequence [X, Y, X]
C7_Witness ==
  /\ out.op = "summarizeByUser"
  /\ Len(rowsAsIs) = 3
  /\ C7_DistinctTimes(rowsAsIs)
  /\ ~C3_IsSorted(rowsAsIs)
  /\ out.val[1].backtracks = 1

-----------------------------------------------------------------------------
(* Phase summaries *)

Zero == Ratio(0, 1)
Range(seq) == {seq[i] : i \in 1..Len(seq)}

RECURSIVE Dedup(_)
\* Array.from(new Set(seq)): first occurrences, in order
Dedup(seq) ==
  IF seq = <<>> THEN <<>>
  ELSE LET init == Dedup(SubSeq(seq, 1, Len(seq) - 1))
           x == seq[Len(seq)]
       IN  IF x \in Range(init) THEN init ELSE Append(init, x)

\* the sum of durs[i] over the positions i with phs[i] = ph, and their number
phaseSum(phs, durs, ph) ==
  SumSeq([i \in 1..Len(phs) |-> IF phs[i] = ph THEN durs[i] ELSE 0])
phaseCount(phs, ph) == Cardinality({i \in 1..Len(phs) : phs[i] = ph})

\* the total in minutes, where the code reports the average
foldPhaseValue_Total(sum, n) == Ratio(sum, 60)

\* v.sum / Math.max(1, v.n) / 60
foldPhaseValue(sum, n) == Ratio(sum, Max(1, n) * 60)

\* the keys of acc alone, without the fixed phases
foldPhaseKeys_OnlySeen(phs) == Dedup(phs)

\* new Set([...Object.keys(acc), ...PHASES])
foldPhaseKeys(phs) == Dedup(phs \o PHASES)

\* fold of buildPhaseSummaryMerged: the object `out`, as its keys in
\* insertion order and its values
fold(rows) ==
  LET phs  == [i \in 1..Len(rows) |-> phaseOf(rows[i].step, rows[i].action)]
      keys == foldPhaseKeys(phs)
  IN  [keys |-> keys,
       val  |-> [p \in Range(keys) |->
                   IF p \in Range(phs)
                   THEN foldPhaseValue(phaseSum(phs, dursOf(rows), p), phaseCount(phs, p))
                   ELSE Zero]]

buildPhaseSummaryMerged(asisRows, tobeRows) ==
  LET a == fold(asisRows)
      t == fold(tobeRows)
      union == Dedup(a.keys \o t.keys)
  IN  [i \in 1..Len(union) |->
         [phase   |-> union[i],
          asisMin |-> IF union[i] \in DOMAIN a.val THEN a.val[union[i]] ELSE Zero,
          tobeMin |-> IF union[i] \in DOMAIN t.val THEN t.val[union[i]] ELSE Zero]]

RECURSIVE phaseAggSum(_, _, _)
\* phaseAgg[phase].asis += (r.duration_seconds_to_next ?? 0) / 60, over the
\* rows of the phase
phaseAggSum(rows, ph, acc) ==
  IF rows = <<>> THEN acc
  ELSE phaseAggSum(Tail(rows), ph,
         IF mapStepToPhase(Head(rows).step) = ph
         THEN FracAdd(acc, FracDiv(durOrZero(Head(rows)), 60))
         ELSE acc)

\* the phaseAgg fold and phaseSummary of the first handler
phaseAgg(asisFiltered, tobeFiltered) ==
  LET pa == [i \in 1..Len(asisFiltered) |-> mapStepToPhase(asisFiltered[i].step)]
      pt == [i \in 1..Len(tobeFiltered) |-> mapStepToPhase(tobeFiltered[i].step)]
      keys == Dedup(pa \o pt)
  IN  [i \in 1..Len(keys) |->
         [phase   |-> keys[i],
          asisMin |-> phaseAggSum(asisFiltered, keys[i], Zero),
          tobeMin |-> phaseAggSum(tobeFiltered, keys[i], Zero)]]

-----------------------------------------------------------------------------
(* Specification of the phase summaries: both folds applied to an As-Is and *)
(* a To-Be event list                                                       *)

MaxAsIsRows == 2
MaxToBeRows == 1

\* (step, action, duration) of the events: Design with and without a
\* duration, Design only once trimmed, Integration by the import keyword,
\* no label and no duration, an inherited key
PhaseEvents ==
  { <<Some(s_CATIA), Null, Some(60)>>,
    <<Some(s_CATIA), Null, Null>>,
    <<Some(<<" ">> \o s_CATIA), Null, Some(60)>>,
    <<Some(s_unknown_step), Some(s_Data_Import_Job), Some(60)>>,
    <<Null, Null, Null>>,
    <<Some(<<"t","o","S","t","r","i","n","g">>), Null, Some(60)>> }

PhaseRowLists(max) ==
  UNION {
    {[i \in 1..n |-> Row(Some(s_user1), e[i][1], e[i][2], Iso(i),
                         IF IsNull(e[i][3]) THEN Null ELSE Some(Iso(i + Get(e[i][3]))),
                         e[i][3])] :
       e \in [1..n -> PhaseEvents]} : n \in 0..max }

InitPhases ==
  /\ rowsAsIs \in PhaseRowLists(MaxAsIsRows)
  /\ rowsToBe \in PhaseRowLists(MaxToBeRows)
  /\ out = NoOut
  /\ IdleHandler

BuildPhaseSummaryMerged ==
  /\ out = NoOut
  /\ out' = [op |-> "buildPhaseSummaryMerged",
             val |-> buildPhaseSummaryMerged(rowsAsIs, rowsToBe)]
  /\ UNCHANGED <<rowsAsIs, rowsToBe, p_user, handler, asisRes, tobeRes, pc, response>>

PhaseAgg ==
  /\ out = NoOut
  /\ out' = [op |-> "phaseAgg", val |-> phaseAgg(rowsAsIs, rowsToBe)]
  /\ UNCHANGED <<rowsAsIs, rowsToBe, p_user, handler, asisRes, tobeRes, pc, response>>

NextPhases == BuildPhaseSummaryMerged \/ PhaseAgg

SpecPhases == InitPhases /\ [][NextPhases]_vars

\* the events of rows classified into phase ph by the fold named op
C5_InPhase(op, rows, ph) ==
  {i \in 1..Len(rows) :
     ph = IF op = "phaseAgg" THEN mapStepToPhase(rows[i].step)
          ELSE phaseOf(rows[i].step, rows[i].action)}
\* the sum of their durations, a missing duration counted as 0
C5_Sum(rows, at) ==
  SumSeq([i \in 1..Len(rows) |->
            IF i \in at /\ ~IsNull(rows[i].duration_seconds_to_next)
            THEN Get(rows[i].duration_seconds_to_next) ELSE 0])
C5_Average(rows, at) == Ratio(C5_Sum(rows, at), Cardinality(at) * 60)
C5_Total(rows, at) == Ratio(C5_Sum(rows, at), 60)

C6_EveryPhaseOnce ==
  out.op = "buildPhaseSummaryMerged" =>
    /\ \A p \in PhaseNames :
         Cardinality({i \in 1..Len(out.val) : out.val[i].phase = p}) = 1
    /\ \A i, j \in 1..Len(out.val) : i # j => out.val[i].phase # out.val[j].phase
    /\ \A i \in 1..Len(out.val) :
         /\ C5_InPhase(out.op, rowsAsIs, out.val[i].phase) = {} => out.val[i].asisMin = Zero
         /\ C5_InPhase(out.op, rowsToBe, out.val[i].phase) = {} => out.val[i].tobeMin = Zero

\* the As-Is list has a Design event with a duration, the To-Be list has no
\* Design event: the Design row is there with tobeMin = 0
C6_Witness ==
  /\ out.op = "buildPhaseSummaryMerged"
  /\ C5_InPhase(out.op, rowsToBe, "Design") = {}
  /\ \E i \in 1..Len(out.val) :
       /\ out.val[i].phase = "Design"
       /\ out.val[i].asisMin # Zero
       /\ out.val[i].tobeMin = Zero

-----------------------------------------------------------------------------
(* Timelines *)

\* the segment with '' where the code falls back to the event's own start
timelineItem_EmptyEnd(i) ==
  [start |-> i.created_at,
   end   |-> Coalesce(i.next_created_at, Malformed),
   step  |-> Coalesce(i.step, s_Unknown),
   phase |-> phaseOf(i.step, i.action),
   sec   |-> toNum(i.duration_seconds_to_next)]

\* list.map((i) => ({ start, end, step, phase, sec }))
timelineItem(i) ==
  [start |-> i.created_at,
   end   |-> Coalesce(i.next_created_at, i.created_at),
   step  |-> Coalesce(i.step, s_Unknown),
   phase |-> phaseOf(i.step, i.action),
   sec   |-> toNum(i.duration_seconds_to_next)]

\* every result buildTimelines can return: one entry per user, its items
\* built from the group as list.sort left it
buildTimelines(rows) ==
  LET byUser == groupByUser(rows)
      each(g) == {[user  |-> byUser[g].key,
                   items |-> [k \in 1..Len(l) |-> timelineItem(l[k])]] :
                    l \in sortByCreatedAt(byUser[g].list)}
  IN  {f \in [1..Len(byUser) -> UNION {each(g) : g \in 1..Len(byUser)}] :
         \A g \in 1..Len(byUser) : f[g] \in each(g)}

-----------------------------------------------------------------------------
(* Specification of the timelines: buildTimelines applied to the rows of    *)
(* several users in any order.  As in the Event model, a row that has no    *)
(* next_created_at (a user's final event) has no duration either.           *)

MaxTimelineRows == 2

TimelineUsers == { Null, Some(s_user1) }
TimelineSteps == { Null, Some(s_CATIA) }
TimelineTimes == { 1, 2 }
\* (seconds to the next event, duration recorded): final event, event with
\* its duration, event whose duration is missing
TimelineNexts == { <<Null, Null>>, <<Some(1), Some(1)>>, <<Some(1), Null>> }

InitTimeline ==
  /\ \E n \in 0..MaxTimelineRows :
       \E u \in [1..n -> TimelineUsers], l \in [1..n -> TimelineSteps],
          t \in [1..n -> TimelineTimes], x \in [1..n -> TimelineNexts] :
         rowsAsIs = [i \in 1..n |->
                       Row(u[i], l[i], Null, Iso(t[i]),
                           IF IsNull(x[i][1]) THEN Null ELSE Some(Iso(t[i] + Get(x[i][1]))),
                           x[i][2])]
  /\ rowsToBe = <<>>
  /\ out = NoOut
  /\ IdleHandler

BuildTimelines ==
  /\ out = NoOut
  /\ \E v \in buildTimelines(rowsAsIs) : out' = [op |-> "buildTimelines", val |-> v]
  /\ \E h \in sortGroups(groupArrays(rowsAsIs)) : rowsAsIs' = h.input
  /\ UNCHANGED <<rowsToBe, p_user, handler, asisRes, tobeRes, pc, response>>

NextTimeline == BuildTimelines

SpecTimeline == InitTimeline /\ [][NextTimeline]_vars

\* C8: for every user, the segment built from an event whose
\* next_created_at is absent starts at the event's created_at, ends where it
\* starts and has duration 0.
C8_FinalSegment ==
  out.op = "buildTimelines" =>
    \A g \in 1..Len(out.val) :
      LET arr == StableSort(C3_EventsOf(rowsAsIs, out.val[g].user))
      IN  /\ Len(out.val[g].items) = Len(arr)
          /\ \A k \in 1..Len(arr) :
               IsNull(arr[k].next_created_at) =>
                 /\ out.val[g].items[k].start = arr[k].created_at
                 /\ out.val[g].items[k].end = out.val[g].items[k].start
                 /\ out.val[g].items[k].sec = 0

\* a user with two events supplied out of order: the first segment runs to
\* the next event, the final one has end = start and duration 0
C8_Witness ==
  /\ out.op = "buildTimelines"
  /\ ~C3_IsSorted(rowsAsIs)
  /\ \E g \in 1..Len(out.val) :
       LET it == out.val[g].items
       IN  /\ Len(it) = 2
           /\ it[1].end # it[1].start /\ it[1].sec = 1
           /\ IsNull(StableSort(rowsAsIs)[2].next_created_at)
           /\ it[2].end = it[2].start /\ it[2].sec = 0

-----------------------------------------------------------------------------
(* The GET handlers *)

\* the { data, error } an rpc() call resolves with
RpcData(rows) ==
  [state |-> "fulfilled", error |-> Null, data |-> Some(rows), settled |-> 0]
RpcError(msg) ==
  [state |-> "fulfilled", error |-> Some(msg), data |-> Null, settled |-> 0]

ErrorResponse(msg) == [status |-> 500, error |-> Some(msg), body |-> Null]
JsonResponse(body) == [status |-> 200, error |-> Null, body |-> Some(body)]

\* a handler that looks at the As-Is error only
rpcErrorMessage_AsIsOnly(h, a, t) ==
  IF ~IsNull(a.error)
  THEN Some(IF h = "first" THEN "As-Is RPC error: " \o Get(a.error) ELSE Get(a.error))
  ELSE Null

\* if (asisRes.error) ...; if (tobeRes.error) ...: the message of the error
\* response, null when neither call reported an error.  The first handler
\* throws an Error its catch clause turns into the response.
rpcErrorMessage(h, a, t) ==
  IF ~IsNull(a.error)
  THEN Some(IF h = "first" THEN "As-Is RPC error: " \o Get(a.error) ELSE Get(a.error))
  ELSE IF ~IsNull(t.error)
  THEN Some(IF h = "first" THEN "To-Be RPC error: " \o Get(t.error) ELSE Get(t.error))
  ELSE Null

\* no filtering at all: every fetched row kept
filterByUser_KeepAll(pu, rows) == rows

\* p_user ? rows.filter((r) => r.user_email === p_user) : rows
\* (an empty `user` parameter is falsy: p_user = user || null)
filterByUser(pu, rows) ==
  IF IsNull(pu) \/ Get(pu) = <<>> THEN rows
  ELSE SelectSeq(rows, LAMBDA r : r.user_email = pu)

\* first handler: rows.map((r) => ({ email, step, action, detail, at, nextAt, durationMin }))
flatTimeline(rows) ==
  [i \in 1..Len(rows) |->
     [email |-> rows[i].user_email, step |-> rows[i].step, action |-> rows[i].action,
      at |-> rows[i].created_at, nextAt |-> rows[i].next_created_at,
      durationMin |-> FracDiv(durOrZero(rows[i]), 60)]]

\* first handler: the distinct non-empty user_email of both lists (the code
\* returns them as a sorted array; the order is not modelled)
usersOf(a, t) ==
  {Get(r.user_email) : r \in {x \in Range(a) \cup Range(t) :
                                ~IsNull(x.user_email) /\ Get(x.user_email) # <<>>}}

\* every body the first handler can answer with
firstBodies(pu, a, t) ==
  LET af == filterByUser(pu, a)
      tf == filterByUser(pu, t)
  IN  {[users |-> usersOf(a, t), asisSummary |-> sa, tobeSummary |-> st,
        phaseSummary |-> phaseAgg(af, tf),
        timelines |-> flatTimeline(af), timelinesAsIs |-> flatTimeline(af),
        timelinesToBe |-> flatTimeline(tf)] :
         sa \in summarizeByUserFirst(af), st \in summarizeByUserFirst(tf)}

\* every body the second handler can answer with
secondBodies(a, t) ==
  {[asisSummary |-> sa, tobeSummary |-> st,
    phaseSummary |-> buildPhaseSummaryMerged(a, t),
    timelines |-> ta, timelinesAsIs |-> ta, timelinesToBe |-> tt] :
     sa \in summarizeByUser(a), st \in summarizeByUser(t),
     ta \in buildTimelines(a), tt \in buildTimelines(t)}

-----------------------------------------------------------------------------
(* Specification of a request: one GET served by either handler *)

MaxUpstreamRows == 1

HandlerUsers == { Some(s_user1), Some(s_user2) }
HandlerSteps == { Null, Some(s_CATIA) }
HandlerRowLists ==
  UNION {
    {[i \in 1..n |-> Row(u[i], l[i], l[i], Iso(i), Some(Iso(i + 1)), Some(60))] :
       u \in [1..n -> HandlerUsers], l \in [1..n -> HandlerSteps]} :
    n \in 0..MaxUpstreamRows }

Init ==
  /\ rowsAsIs \in HandlerRowLists
  /\ rowsToBe \in HandlerRowLists
  /\ p_user \in {Null} \cup HandlerUsers
  /\ handler \in {"first", "second"}
  /\ asisRes = NoRes
  /\ tobeRes = NoRes
  /\ pc = "start"
  /\ response = Null
  /\ out = NoOut

\* new Date(from).toISOString() or getClient() throws: the catch clause answers
SetupThrows ==
  /\ pc = "start"
  /\ \E msg \in {"Invalid time value", "supabase url missing for asis"} :
       response' = Some(ErrorResponse(msg))
  /\ pc' = "done"
  /\ UNCHANGED <<rowsAsIs, rowsToBe, p_user, handler, asisRes, tobeRes, out>>

\* both rpc() calls are issued, the handler awaits Promise.all
IssueRpcs ==
  /\ pc = "start"
  /\ pc' = "awaiting"
  /\ UNCHANGED <<rowsAsIs, rowsToBe, p_user, handler, asisRes, tobeRes, response, out>>

AsisCompletes ==
  /\ pc = "awaiting"
  /\ asisRes.state = "pending"
  /\ \E r \in {RpcData(rowsAsIs), RpcError("asis failed")} :
       asisRes' = [r EXCEPT !.settled = IF tobeRes.state = "pending" THEN 1 ELSE 2]
  /\ UNCHANGED <<rowsAsIs, rowsToBe, p_user, handler, tobeRes, pc, response, out>>

TobeCompletes ==
  /\ pc = "awaiting"
  /\ tobeRes.state = "pending"
  /\ \E r \in {RpcData(rowsToBe), RpcError("tobe failed")} :
       tobeRes' = [r EXCEPT !.settled = IF asisRes.state = "pending" THEN 1 ELSE 2]
  /\ UNCHANGED <<rowsAsIs, rowsToBe, p_user, handler, asisRes, pc, response, out>>

\* the handler going on as soon as one of the reads has completed, the
\* other one read as it is
Resume_AfterFirst ==
  /\ pc = "awaiting"
  /\ asisRes.state = "fulfilled" \/ tobeRes.state = "fulfilled"
  /\ LET err == rpcErrorMessage(handler, asisRes, tobeRes)
         a == IF asisRes.state = "pending" \/ IsNull(asisRes.data)
              THEN <<>> ELSE Get(asisRes.data)
         t == IF tobeRes.state = "pending" \/ IsNull(tobeRes.data)
              THEN <<>> ELSE Get(tobeRes.data)
     IN  IF ~IsNull(err)
         THEN response' = Some(ErrorResponse(Get(err)))
         ELSE \E b \in (IF handler = "first" THEN firstBodies(p_user, a, t)
                        ELSE secondBodies(a, t)) :
                response' = Some(JsonResponse(b))
  /\ pc' = "done"
  /\ UNCHANGED <<rowsAsIs, rowsToBe, p_user, handler, asisRes, tobeRes, out>>

\* Promise.all has resolved: the rest of the handler runs to its response
Resume ==
  /\ pc = "awaiting"
  /\ asisRes.state = "fulfilled"
  /\ tobeRes.state = "fulfilled"
  /\ LET err == rpcErrorMessage(handler, asisRes, tobeRes)
         a == IF IsNull(asisRes.data) THEN <<>> ELSE Get(asisRes.data)
         t == IF IsNull(tobeRes.data) THEN <<>> ELSE Get(tobeRes.data)
     IN  IF ~IsNull(err)
         THEN response' = Some(ErrorResponse(Get(err)))
         ELSE \E b \in (IF handler = "first" THEN firstBodies(p_user, a, t)
                        ELSE secondBodies(a, t)) :
                response' = Some(JsonResponse(b))
  /\ pc' = "done"
  /\ UNCHANGED <<rowsAsIs, rowsToBe, p_user, handler, asisRes, tobeRes, out>>

Next == SetupThrows \/ IssueRpcs \/ AsisCompletes \/ TobeCompletes \/ Resume

Spec == Init /\ [][Next]_vars

\* C9: if either upstream query reports an error, whichever it is and
\* whether or not the other succeeded, the response is an error (status 500
\* with a message) and carries no results; a response carrying results is
\* produced only when both queries succeeded.
C9_UpstreamErrorFails ==
  ~IsNull(response) =>
    LET r == Get(response)
    IN  /\ (~IsNull(asisRes.error) \/ ~IsNull(tobeRes.error)) =>
             r.status = 500 /\ ~IsNull(r.error) /\ IsNull(r.body)
        /\ ~IsNull(r.body) =>
             /\ asisRes.state = "fulfilled" /\ IsNull(asisRes.error)
             /\ tobeRes.state = "fulfilled" /\ IsNull(tobeRes.error)
             /\ r.status = 200

\* the As-Is query succeeded with rows, the To-Be query failed: status 500
C9_Witness ==
  /\ ~IsNull(response)
  /\ asisRes.data = Some(rowsAsIs) /\ rowsAsIs # <<>>
  /\ ~IsNull(tobeRes.error)
  /\ Get(response).status = 500
  /\ IsNull(Get(response).body)

-----------------------------------------------------------------------------
(* Specification of malformed timestamps: the summarizers and the timeline  *)
(* builder applied to one user's rows, some of whose created_at or          *)
(* next_created_at no Date can parse                                        *)

MaxMalformedRows == 2

MalformedCreated == { Iso(1), Iso(2), Malformed }
MalformedNexts   == { Null, Some(Iso(3)), Some(Malformed) }

InitMalformed ==
  /\ \E n \in 1..MaxMalformedRows :
       \E c \in [1..n -> MalformedCreated], x \in [1..n -> MalformedNexts] :
         rowsAsIs = [i \in 1..n |->
                       Row(Some(s_user1), Some(s_CATIA), Null, c[i], x[i],
                           IF IsNull(x[i]) THEN Null ELSE Some(1))]
  /\ rowsToBe = <<>>
  /\ out = NoOut
  /\ IdleHandler

NextMalformed ==
  SummarizeByUser \/ SummarizeByUserFirst \/ Summarize \/ BuildTimelines

SpecMalformed == InitMalformed /\ [][NextMalformed]_vars

C10_WellFormed(r) ==
  /\ r.created_at.kind = "iso"
  /\ IsNull(r.next_created_at) \/ Get(r.next_created_at).kind = "iso"

\* C10: no summary and no timeline is produced from an input holding a
\* timestamp that cannot be parsed: the computation fails instead.
C10_MalformedTimestampFails ==
  out.op \in SummarizerOps \cup {"buildTimelines"} =>
    \A i \in 1..Len(rowsAsIs) : C10_WellFormed(rowsAsIs[i])

-----------------------------------------------------------------------------
(* Specification of the sign of the aggregates: the three summarizers       *)
(* applied to one user's non-empty group, already in created_at order, with *)
(* every kind of duration the row type (number | null) holds                *)

MaxSignRows == 2

SignSteps == {Null, Some(s_X), Some(s_Y)}
SignTimes == {1, 2}
\* absent, zero, positive, negative, NaN
SignDurs  == {Null, <<0>>, <<60>>, <<0 - 60>>, <<0, 0>>}

InitSign ==
  /\ \E n \in 1..MaxSignRows :
       \E st \in [1..n -> SignSteps], at \in [1..n -> SignTimes],
          du \in [1..n -> SignDurs] :
         /\ \A i \in 1..(n - 1) : at[i] <= at[i + 1]
         /\ rowsAsIs = [i \in 1..n |->
                          Row(Some(s_user1), st[i], Null, Iso(at[i]), Null, du[i])]
  /\ rowsToBe = <<>>
  /\ out = NoOut
  /\ IdleHandler

NextSign == SummarizeByUser \/ SummarizeByUserFirst \/ Summarize

SpecSign == InitSign /\ [][NextSign]_vars

\* x >= 0 of a number: false of NaN and of every negative number
C11_NonNegative(x) == x # NaN /\ x.n >= 0

\* C11: for a non-empty group of one user in created_at order, every summary
\* any of the three summarizers returns has totalMin >= 0 and
\* stepAvgSec[s] >= 0 for every step s in it, whatever durations the rows hold
C11_AggregatesNonNegative ==
  out # NoOut =>
    \A g \in 1..Len(out.val) :
      /\ C11_NonNegative(out.val[g].totalMin)
      /\ \A k \in DOMAIN out.val[g].stepAvgSec :
           C11_NonNegative(out.val[g].stepAvgSec[k])

-----------------------------------------------------------------------------
(* Specification of the reading of durations: every operation that reads    *)
(* duration_seconds_to_next, applied to rows whose durations are finite,    *)
(* missing or non-finite                                                    *)

MaxCoerceRows == 2

CoerceSteps == {s_CATIA, s_EBOM}
\* absent, finite, NaN, Infinity
CoerceDurs  == {Null, <<30>>, <<0, 0>>, <<1, 0>>}

InitCoerce ==
  /\ \E n \in 1..MaxCoerceRows :
       \E st \in [1..n -> CoerceSteps], du \in [1..n -> CoerceDurs] :
         rowsAsIs = [i \in 1..n |->
                       Row(Some(s_user1), Some(st[i]), Null, Iso(i), Null, du[i])]
  /\ rowsToBe = <<>>
  /\ out = NoOut
  /\ IdleHandler

\* the timelinesAsIs of the first handler
FlatTimeline ==
  /\ out = NoOut
  /\ out' = [op |-> "flatTimeline", val |-> flatTimeline(rowsAsIs)]
  /\ UNCHANGED <<rowsAsIs, rowsToBe, p_user, handler, asisRes, tobeRes, pc, response>>

NextCoerce ==
  \/ SummarizeByUser \/ SummarizeByUserFirst \/ Summarize
  \/ BuildPhaseSummaryMerged \/ PhaseAgg
  \/ BuildTimelines \/ FlatTimeline

SpecCoerce == InitCoerce /\ [][NextCoerce]_vars

\* the rows with every missing or non-finite duration replaced by 0
C12_AsZero(rows) ==
  [i \in 1..Len(rows) |->
     [rows[i] EXCEPT !.duration_seconds_to_next =
        IF Len(@) = 1 THEN @ ELSE <<0>>]]

\* every result of the operation op on the rows a (and none for To-Be)
C12_Results(op, a) ==
  CASE op = "summarizeByUser"         -> summarizeByUser(a)
    [] op = "summarizeByUserFirst"    -> summarizeByUserFirst(a)
    [] op = "summarize"               -> summarize(a)
    [] op = "buildPhaseSummaryMerged" -> {buildPhaseSummaryMerged(a, <<>>)}
    [] op = "phaseAgg"                -> {phaseAgg(a, <<>>)}
    [] op = "buildTimelines"          -> buildTimelines(a)
    [] op = "flatTimeline"            ->
         {[i \in 1..Len(a) |-> flatTimeline(a)[i].durationMin]}

\* the part of a result that is computed from durations
C12_View(op, v) ==
  IF op = "flatTimeline" THEN [i \in 1..Len(v) |-> v[i].durationMin] ELSE v

\* C12: wherever a duration is read, a missing or non-finite duration counts
\* as 0: every operation returns what it returns for the same rows with
\* those durations replaced by 0 (the event adds 0 to its sum and 1 to its
\* count, and no event is left out)
C12_MissingOrNonFiniteIsZero ==
  out # NoOut =>
    C12_View(out.op, out.val) \in C12_Results(out.op, C12_AsZero(rowsAsIs))

-----------------------------------------------------------------------------
(* Specification of the user filter: one GET served by the first handler,   *)
(* whose upstream reads return rows of several users                        *)

MaxFilterRows == 2

FilterEmails == {Null, Some(s_user1), Some(s_user2)}
FilterRowLists(max) ==
  UNION {
    {[i \in 1..n |-> Row(u[i], Some(s_CATIA), Null, Iso(i), Some(Iso(i + 1)), Some(60))] :
       u \in [1..n -> FilterEmails]} :
    n \in 0..max }

InitFilter ==
  /\ rowsAsIs \in FilterRowLists(MaxFilterRows)
  /\ rowsToBe \in FilterRowLists(1)
  /\ p_user \in {Null} \cup HandlerUsers
  /\ handler = "first"
  /\ asisRes = NoRes
  /\ tobeRes = NoRes
  /\ pc = "start"
  /\ response = Null
  /\ out = NoOut

SpecFilter == InitFilter /\ [][Next]_vars

\* the events of rows the claim lets the response depend on
C13_Used(rows) ==
  IF IsNull(p_user) THEN rows
  ELSE SelectSeq(rows, LAMBDA r : r.user_email = p_user)

\* C13: in the handler that defines filterByUser, with a user filter every
\* user summary, phase total and timeline entry of both variants is computed
\* from the events whose user_email equals the filter and from no other;
\* with no filter it is computed from every fetched event of the variant
C13_FilterBeforeGrouping ==
  (~IsNull(response) /\ ~IsNull(Get(response).body)) =>
    LET b == Get(Get(response).body)
        a == C13_Used(rowsAsIs)
        t == C13_Used(rowsToBe)
    IN  /\ b.asisSummary \in summarizeByUserFirst(a)
        /\ b.tobeSummary \in summarizeByUserFirst(t)
        /\ b.phaseSummary = phaseAgg(a, t)
        /\ b.timelinesAsIs = flatTimeline(a)
        /\ b.timelinesToBe = flatTimeline(t)
        /\ b.timelines = b.timelinesAsIs
        /\ Len(b.timelinesAsIs) = Len(a) /\ Len(b.timelinesToBe) = Len(t)
        /\ ~IsNull(p_user) =>
             /\ \A i \in 1..Len(b.asisSummary) : b.asisSummary[i].email = Get(p_user)
             /\ \A i \in 1..Len(b.tobeSummary) : b.tobeSummary[i].email = Get(p_user)
             /\ \A i \in 1..Len(b.timelinesAsIs) : b.timelinesAsIs[i].email = p_user
             /\ \A i \in 1..Len(b.timelinesToBe) : b.timelinesToBe[i].email = p_user

\* the As-Is read returned one event of the filtered user and one of another
\* user: the response holds one summary and one timeline entry, 1 minute
C13_Witness ==
  /\ p_user = Some(s_user1)
  /\ Len(rowsAsIs) = 2
  /\ rowsAsIs[1].user_email = Some(s_user2)
  /\ rowsAsIs[2].user_email = Some(s_user1)
  /\ ~IsNull(response) /\ ~IsNull(Get(response).body)
  /\ LET b == Get(Get(response).body)
     IN  /\ Len(b.asisSummary) = 1 /\ b.asisSummary[1].totalMin = Ratio(1, 1)
         /\ Len(b.timelinesAsIs) = 1
         /\ Len(b.phaseSummary) = 1 /\ b.phaseSummary[1].asisMin = Ratio(1, 1)

-----------------------------------------------------------------------------
(* Specification of the caller's array: the operations applied to rows in   *)
(* any order, of one or two users                                           *)

MaxFrameRows == 3

FrameUsers == {Some(s_user1), Some(s_user2)}
FrameTimes == {1, 2, 3}

InitFrame ==
  /\ \E n \in 1..MaxFrameRows :
       \E u \in [1..n -> FrameUsers], at \in [1..n -> FrameTimes] :
         rowsAsIs = [i \in 1..n |->
                       Row(u[i], Some(s_CATIA), Null, Iso(at[i]), Null, Some(1))]
  /\ rowsToBe = <<>>
  /\ out = NoOut
  /\ IdleHandler

NextFrame ==
  \/ SummarizeByUser \/ SummarizeByUserFirst \/ Summarize
  \/ BuildTimelines \/ BuildPhaseSummaryMerged

SpecFrame == InitFrame /\ [][NextFrame]_vars

\* C14: no summarization, phase aggregation or timeline operation changes
\* the array it was given: after it returns the array holds the same event
\* records in the same order
C14_InputUnchanged ==
  [][rowsAsIs' = rowsAsIs /\ rowsToBe' = rowsToBe]_vars

\* summarizeByUser has returned for two events of one user given latest
\* first: the array still holds them latest first
C14_Witness ==
  /\ out.op = "summarizeByUser"
  /\ Len(out.val) = 1
  /\ Len(rowsAsIs) = 2
  /\ rowsAsIs[1].user_email = rowsAsIs[2].user_email
  /\ rowsAsIs[1].created_at.t > rowsAsIs[2].created_at.t

-----------------------------------------------------------------------------
(* The two upstream reads of a request (specification Spec) *)

\* the responses the two results determine, whatever their order of arrival
C15_Expected ==
  LET pre(h, p) == IF h = "first" THEN p ELSE ""
  IN  IF ~IsNull(asisRes.error)
      THEN {ErrorResponse(pre(handler, "As-Is RPC error: ") \o Get(asisRes.error))}
      ELSE IF ~IsNull(tobeRes.error)
      THEN {ErrorResponse(pre(handler, "To-Be RPC error: ") \o Get(tobeRes.error))}
      ELSE {JsonResponse(b) :
              b \in (IF handler = "first"
                     THEN firstBodies(p_user, Get(asisRes.data), Get(tobeRes.data))
                     ELSE secondBodies(Get(asisRes.data), Get(tobeRes.data)))}

\* C15: while both reads are pending either of them can complete first; a
\* response that follows the reads is given only when both have completed,
\* and it is the one their two results determine, the same whichever of
\* them completed first
C15_JoinedReads ==
  /\ (pc = "awaiting" /\ asisRes.state = "pending" /\ tobeRes.state = "pending") =>
       ENABLED AsisCompletes /\ ENABLED TobeCompletes
  /\ (~IsNull(response) /\ (asisRes.state # "pending" \/ tobeRes.state # "pending")) =>
       /\ asisRes.state = "fulfilled" /\ tobeRes.state = "fulfilled"
       /\ {asisRes.settled, tobeRes.settled} = {1, 2}
       /\ Get(response) \in C15_Expected

\* the To-Be read completed first, the As-Is read second, both with an
\* event: the response carries the summaries of both
C15_Witness ==
  /\ tobeRes.settled = 1 /\ asisRes.settled = 2
  /\ rowsAsIs # <<>> /\ rowsToBe # <<>>
  /\ ~IsNull(response) /\ ~IsNull(Get(response).body)
  /\ Len(Get(Get(response).body).asisSummary) = 1
  /\ Len(Get(Get(response).body).tobeSummary) = 1

-----------------------------------------------------------------------------
(* Specification of the user keys: the per-user summarizers applied to      *)
(* events with and without user_email                                       *)

MaxKeyRows == 3

\* no user_email, an ordinary one, and the text "unknown" itself
KeyEmails == {Null, Some(s_user1), Some(s_unknown)}

InitKey ==
  /\ \E n \in 0..MaxKeyRows :
       \E u \in [1..n -> KeyEmails] :
         rowsAsIs = [i \in 1..n |->
                       Row(u[i], Some(s_CATIA), Null, Iso(i), Null, Some(1))]
  /\ rowsToBe = <<>>
  /\ out = NoOut
  /\ IdleHandler

NextKey == SummarizeByUser \/ SummarizeByUserFirst \/ Summarize

SpecKey == InitKey /\ [][NextKey]_vars

\* the distinct user keys of the rows, "unknown" for an absent user_email
C16_Keys(rows) ==
  Dedup([i \in 1..Len(rows) |->
           IF IsNull(rows[i].user_email) THEN s_unknown
           ELSE Get(rows[i].user_email)])

\* C16: the per-user summarizers return exactly one summary per distinct
\* user key, the key of an event without user_email being "unknown", and the
\* email of each summary is the key of its group
C16_OneSummaryPerKey ==
  out # NoOut =>
    /\ Len(out.val) = Len(C16_Keys(rowsAsIs))
    /\ \A g \in 1..Len(out.val) : out.val[g].email = C16_Keys(rowsAsIs)[g]

-----------------------------------------------------------------------------
(* Specification of the two totals: the summarizers applied to one user's   *)
(* events, given in any order, whose durations are the gaps between         *)
(* consecutive created_at values                                            *)

MaxTotalRows == 3

TotalTimes == 0..3

InitTotals ==
  /\ \E n \in 1..MaxTotalRows :
       \E at \in [1..n -> TotalTimes] :
         /\ \A i \in 1..(n - 1) : at[i] <= at[i + 1]
         /\ rowsAsIs \in Perms([i \in 1..n |->
              Row(Some(s_user1), Some(s_CATIA), Some(<<"a">>), Iso(at[i]),
                  IF i < n THEN Some(Iso(at[i + 1])) ELSE Null,
                  IF i < n THEN Some(at[i + 1] - at[i]) ELSE Null)])
  /\ rowsToBe = <<>>
  /\ out = NoOut
  /\ IdleHandler

NextTotals == SummarizeByUser \/ SummarizeByUserFirst \/ Summarize

SpecTotals == InitTotals /\ [][NextTotals]_vars

\* the seconds from the earliest to the latest created_at of the rows
C17_Span(rows) ==
  LET ts == {rows[i].created_at.t : i \in 1..Len(rows)}
  IN  (CHOOSE x \in ts : \A y \in ts : y <= x) - (CHOOSE x \in ts : \A y \in ts : x <= y)

\* C17: on a group whose durations are the gaps to the next created_at (the
\* final one absent), the total of the durations (buildUserSummary of both
\* handlers) and the time from the first to the last event (summarize of
\* loaders.ts) are the same totalMin
C17_TotalsAgree ==
  out # NoOut =>
    /\ Len(out.val) = 1
    /\ out.val[1].totalMin = Ratio(C17_Span(rowsAsIs), 60)
    /\ \A a \in summarizeByUser(rowsAsIs), b \in summarizeByUserFirst(rowsAsIs),
          c \in summarize(rowsAsIs) :
         a[1].totalMin = c[1].totalMin /\ b[1].totalMin = c[1].totalMin

\* summarize of loaders.ts has returned for three events given out of order
\* that span 3 seconds: totalMin is 3/60
C17_Witness ==
  /\ out.op = "summarize"
  /\ Len(rowsAsIs) = 3
  /\ rowsAsIs[1].created_at.t > rowsAsIs[2].created_at.t
  /\ C17_Span(rowsAsIs) = 3
  /\ out.val[1].totalMin = Ratio(1, 20)
  /\ \E a \in summarizeByUser(rowsAsIs) : a[1].totalMin = Ratio(1, 20)

====
